---- MODULE Spec2Model ----
(***************************************************************************)
(* Model of the asset-loan chaincode (src/chaincode/smartcontract.go).     *)
(*                                                                         *)
(* The world state is a key-value ledger reached through the stub          *)
(* (GetState / PutState / DelState / GetStateByRange).  Every exported     *)
(* method of SmartContract is one action: the action runs the whole        *)
(* handler against the ledger and records the invocation, what it          *)
(* returned and the stub calls it issued.                                  *)
(*                                                                         *)
(* Bytes written by json.Marshal are modelled as the tuple of the values   *)
(* of the json-tagged fields of Asset, in declaration order; the           *)
(* unexported field `state` has no json tag and is not part of the tuple.  *)
(* A nil byte slice (absent key) is the empty tuple.                       *)
(*                                                                         *)
(* TransferAsset assigns asset.Owner, a field that struct Asset does not   *)
(* declare: the package does not compile as written, so the source fixes   *)
(* no behaviour for that statement.  The model leaves it open: every       *)
(* TransferAsset that reaches the statement takes one of OwnerReadings,    *)
(* the repairs under which the statement compiles.                         *)
(***************************************************************************)
EXTENDS Naturals, Sequences, FiniteSets

----------------------------------------------------------------------------
(* Bounds of the model *)

\* number of asset ids the invocations use, taken from IdPool: a seed key and
\* the empty string come first, then keys outside the seed batch
NumIds == 2

IdPool == <<"asset1", "", "loan-7", "a1", "a2">>

Ids == {IdPool[i] : i \in 1..NumIds}

\* the identities that submit transactions
Callers == {"lenderA", "lenderB"}

\* (start, end, amount) argument triples offered to CreateAsset; the second
\* is the triple of the seed record asset1
ArgTriples == {<<20230101, 20240101, 1000>>, <<20210101, 20220101, 300>>}

\* the CreateAsset submissions of the contract specifications: each caller
\* submits its own triple, so two creates of one id differ in the caller and
\* in every argument
Submissions ==
    {<<"lenderA", <<20230101, 20240101, 1000>>>>, <<"lenderB", <<20210101, 20220101, 300>>>>}

\* newOwner arguments offered to TransferAsset
NewOwners == {"borrowerB"}

\* the ids used under faults: one seed key and one key outside the batch
FaultIds == {"asset1", "loan-7"}

----------------------------------------------------------------------------
(* State (type State uint) *)

ISSUED == 1
PENDING == 2
TRADING == 3
REDEEMED == 4
\* zero value of State: an Asset that was never assigned a state
ZeroState == 0

\* a variant whose upper bound test is off by one
StringOffByOne(state) ==
    LET names == <<"ISSUED", "PENDING", "TRADING", "REDEEMED">>
    IN  IF state < ISSUED \/ state >= REDEEMED THEN "UNKNOWN" ELSE names[(state - 1) + 1]

\* State.String
String(state) ==
    LET names == <<"ISSUED", "PENDING", "TRADING", "REDEEMED">>
    IN  IF state < ISSUED \/ state > REDEEMED THEN "UNKNOWN" ELSE names[(state - 1) + 1]

----------------------------------------------------------------------------
(* Asset *)

\* the zero value of struct Asset; a nil []string is the empty sequence
ZeroAsset ==
    [ID |-> "", Lender |-> "", Borrower |-> "",
     StartDate |-> 0, Amount |-> 0, EndDate |-> 0,
     BorrowerAddress |-> "", InvestorAddress |-> "", PaymentHashes |-> <<>>,
     state |-> ZeroState]

\* composite literal Asset{ID: id, StartDate: start, EndDate: end, Amount: amount}
AssetLiteral(id, start, end, amount) ==
    [ZeroAsset EXCEPT !.ID = id, !.StartDate = start, !.EndDate = end, !.Amount = amount]

GetState(asset) == asset.state

SetIssued(asset) == [asset EXCEPT !.state = ISSUED]

SetTrading(asset) == [asset EXCEPT !.state = TRADING]

SetRedeemed(asset) == [asset EXCEPT !.state = REDEEMED]

SetPending(asset) == [asset EXCEPT !.state = PENDING]

\* a variant in which state is an exported, tagged field
MarshalWithState(asset) ==
    <<asset.ID, asset.Lender, asset.Borrower,
      asset.StartDate, asset.Amount, asset.EndDate,
      asset.BorrowerAddress, asset.InvestorAddress, asset.PaymentHashes,
      asset.state>>

\* the json-tagged fields that struct Asset declares, in declaration order
DeclaredJSON(asset) ==
    <<asset.ID, asset.Lender, asset.Borrower,
      asset.StartDate, asset.Amount, asset.EndDate,
      asset.BorrowerAddress, asset.InvestorAddress, asset.PaymentHashes>>

\* json.Marshal(asset): the json-tagged fields in declaration order.  The
\* unexported field state is skipped by encoding/json.  An Asset that carries
\* an exported Owner (see AssignOwner) is written with that value as a further
\* element; an Owner that was never assigned is not written.
Marshal(asset) ==
    IF "Owner" \in DOMAIN asset
    THEN Append(DeclaredJSON(asset), asset.Owner)
    ELSE DeclaredJSON(asset)

NumJSONFields == 9

\* json.Unmarshal(bytes, &asset) into a zero Asset: the tagged fields are
\* filled, state keeps its zero value; an Owner element, if the bytes hold
\* one, comes back as it was written.  Bytes that are no Asset object fail.
Unmarshal(bytes) ==
    LET declared ==
            [ID |-> bytes[1], Lender |-> bytes[2], Borrower |-> bytes[3],
             StartDate |-> bytes[4], Amount |-> bytes[5], EndDate |-> bytes[6],
             BorrowerAddress |-> bytes[7], InvestorAddress |-> bytes[8],
             PaymentHashes |-> bytes[9], state |-> ZeroState]
    IN  IF Len(bytes) = NumJSONFields
        THEN [err |-> "nil", asset |-> declared]
        ELSE IF Len(bytes) = NumJSONFields + 1
        THEN [err |-> "nil",
              asset |-> [f \in DOMAIN declared \cup {"Owner"} |->
                            IF f = "Owner" THEN bytes[NumJSONFields + 1] ELSE declared[f]]]
        ELSE [err |-> "unmarshal error", asset |-> ZeroAsset]

----------------------------------------------------------------------------
(* Transaction context: the caller's identity token and the behaviour of   *)
(* the stub during one invocation.  A fault field says which call of that  *)
(* kind returns an error (0 or FALSE: none does); garbledAt says which      *)
(* entry of a range scan carries bytes that are no Asset record.           *)

\* errors are compared by message; "nil" is the nil error
nil == "nil"

\* fmt.Errorf("the asset %s already exists", id)
AlreadyExists == "the asset already exists"

\* fmt.Errorf("the asset %s does not exist", id)
NotFound == "the asset does not exist"

\* fmt.Errorf("failed to read from world state: %v", err)
ReadFault == "failed to read from world state"

\* fmt.Errorf("failed to put to world state. %v", err)
PutFault == "failed to put to world state"

\* base64.StdEncoding: a well-formed token carries its payload, any other
\* string of characters is rejected by DecodeString
EncodeToString(s) == [wellFormed |-> TRUE, payload |-> s]

Malformed(s) == [wellFormed |-> FALSE, payload |-> s]

DecodeString(b64) ==
    IF b64.wellFormed
    THEN [err |-> nil, value |-> b64.payload]
    ELSE [err |-> "illegal base64 data", value |-> ""]

\* a context in which neither the identity service nor the stub fails
GoodCtx(c) ==
    [b64ID |-> EncodeToString(c), getIDErrAt |-> 0,
     getErr |-> FALSE, putErrAt |-> 0, delErr |-> FALSE,
     rangeErr |-> FALSE, nextErrAt |-> 0, garbledAt |-> 0]

\* submittingClientIdentity, on its n-th call within the invocation
submittingClientIdentity(ctx, n) ==
    IF ctx.getIDErrAt = n
    THEN [err |-> "Failed to read clientID", client |-> ""]
    ELSE LET dec == DecodeString(ctx.b64ID)
         IN  IF dec.err # nil
             THEN [err |-> "failed to base64 decode clientID", client |-> ""]
             ELSE [err |-> nil, client |-> dec.value]

----------------------------------------------------------------------------
(* The stub.  A ledger is a function from keys to bytes, <<>> for a key    *)
(* that holds no value.  calls is the sequence of write calls the          *)
(* invocation has issued so far.                                           *)

SeedIds == {"asset1", "asset2", "asset3", "asset4", "asset5", "asset6"}

\* the keys the ledgers of the model range over: the seed keys and every id
\* an invocation of one of the specifications names
Keys == Ids \cup SeedIds \cup FaultIds

\* all keys of the model in lexical (byte) order, the order of a range scan
LexOrder ==
    <<"", "a1", "a2", "asset1", "asset2", "asset3", "asset4", "asset5", "asset6", "loan-7">>

EmptyLedger == [k \in Keys |-> <<>>]

StubGetState(ctx, l, key) ==
    IF ctx.getErr
    THEN [err |-> "GetState failed", value |-> <<>>]
    ELSE [err |-> nil, value |-> l[key]]

NumPuts(calls) == Len(SelectSeq(calls, LAMBDA c : c.call = "PutState"))

PutState(ctx, l, calls, key, value) ==
    LET issued == Append(calls, [call |-> "PutState", key |-> key, value |-> value])
    IN  IF ctx.putErrAt = NumPuts(issued)
        THEN [err |-> "PutState failed", ledger |-> l, calls |-> issued]
        ELSE [err |-> nil, ledger |-> [l EXCEPT ![key] = value], calls |-> issued]

DelState(ctx, l, calls, key) ==
    LET issued == Append(calls, [call |-> "DelState", key |-> key, value |-> <<>>])
    IN  IF ctx.delErr
        THEN [err |-> "DelState failed", ledger |-> l, calls |-> issued]
        ELSE [err |-> nil, ledger |-> [l EXCEPT ![key] = <<>>], calls |-> issued]

\* GetStateByRange("", ""): every key that holds a value, in key order
GetStateByRange(ctx, l) ==
    IF ctx.rangeErr
    THEN [err |-> "GetStateByRange failed", entries |-> <<>>]
    ELSE [err |-> nil,
          entries |-> SelectSeq(LexOrder, LAMBDA k : k \in Keys /\ l[k] # <<>>)]

----------------------------------------------------------------------------
(* The handlers.  Each takes the context, the ledger and its arguments and *)
(* yields what the invocation returns and leaves behind:                   *)
(*   err        the returned error (nil for success)                       *)
(*   exists     the bool AssetExists returns                               *)
(*   asset      the *Asset ReadAsset returns (<<>> for a nil pointer)      *)
(*   assets     the []*Asset GetAllAssets returns                          *)
(*   ledger     the ledger after the invocation                            *)
(*   calls      the PutState / DelState calls issued, in order             *)
(*   marshalled the in-memory Assets handed to json.Marshal, in order      *)
(*   opened, closed  range iterators opened and closed                     *)

Return(err, l) ==
    [err |-> err, exists |-> FALSE, asset |-> <<>>, assets |-> <<>>,
     ledger |-> l, calls |-> <<>>, marshalled |-> <<>>,
     opened |-> 0, closed |-> 0]

\* a variant with the nil test inverted
AssetExistsInverted(ctx, l, id) ==
    LET got == StubGetState(ctx, l, id)
    IN  IF got.err # nil
        THEN Return(ReadFault, l)
        ELSE [Return(nil, l) EXCEPT !.exists = (got.value = <<>>)]

\* a variant that swallows the read error
AssetExistsSwallowsFault(ctx, l, id) ==
    LET got == StubGetState(ctx, l, id)
    IN  [Return(nil, l) EXCEPT !.exists = (got.value # <<>>)]

AssetExists(ctx, l, id) ==
    LET got == StubGetState(ctx, l, id)
    IN  IF got.err # nil
        THEN Return(ReadFault, l)
        ELSE [Return(nil, l) EXCEPT !.exists = (got.value # <<>>)]

\* a variant that writes the value it has read back to the ledger
ReadAssetWritesBack(ctx, l, id) ==
    LET got == StubGetState(ctx, l, id)
    IN  IF got.err # nil
        THEN Return(ReadFault, l)
        ELSE IF got.value = <<>>
        THEN Return(NotFound, l)
        ELSE LET dec == Unmarshal(got.value)
                 put == PutState(ctx, l, <<>>, id, Marshal(dec.asset))
             IN  IF dec.err # nil
                 THEN Return(dec.err, l)
                 ELSE [Return(nil, put.ledger) EXCEPT
                          !.asset = <<dec.asset>>, !.calls = put.calls]

ReadAsset(ctx, l, id) ==
    LET got == StubGetState(ctx, l, id)
    IN  IF got.err # nil
        THEN Return(ReadFault, l)
        ELSE IF got.value = <<>>
        THEN Return(NotFound, l)
        ELSE LET dec == Unmarshal(got.value)
             IN  IF dec.err # nil
                 THEN Return(dec.err, l)
                 ELSE [Return(nil, l) EXCEPT !.asset = <<dec.asset>>]

\* a variant without the existence check: an upsert
CreateAssetUpsert(ctx, l, id, start, end, amount) ==
    LET issued == SetIssued(AssetLiteral(id, start, end, amount))
        who == submittingClientIdentity(ctx, 1)
    IN  IF who.err # nil
        THEN Return(who.err, l)
        ELSE LET asset == [issued EXCEPT !.Lender = who.client]
                 put == PutState(ctx, l, <<>>, id, Marshal(asset))
             IN  [Return(put.err, put.ledger) EXCEPT
                     !.calls = put.calls, !.marshalled = <<asset>>]

\* a variant that tries the put a second time when it fails
CreateAssetPutRetries(ctx, l, id, start, end, amount) ==
    LET issued == SetIssued(AssetLiteral(id, start, end, amount))
        who == submittingClientIdentity(ctx, 1)
    IN  IF who.err # nil
        THEN Return(who.err, l)
        ELSE LET asset == [issued EXCEPT !.Lender = who.client]
                 first == PutState(ctx, l, <<>>, id, Marshal(asset))
                 put == IF first.err = nil
                        THEN first
                        ELSE PutState(ctx, l, first.calls, id, Marshal(asset))
             IN  [Return(put.err, put.ledger) EXCEPT
                     !.calls = put.calls, !.marshalled = <<asset>>]

\* a variant that stores the asset although the identity was not resolved
CreateAssetPutIgnoresIdentity(ctx, l, id, start, end, amount) ==
    LET issued == SetIssued(AssetLiteral(id, start, end, amount))
        who == submittingClientIdentity(ctx, 1)
        asset == [issued EXCEPT !.Lender = who.client]
        put == PutState(ctx, l, <<>>, id, Marshal(asset))
    IN  [Return(put.err, put.ledger) EXCEPT
            !.calls = put.calls, !.marshalled = <<asset>>]

\* CreateAsset from the composite literal on (lines 122-143): what runs once
\* the existence check has answered false
CreateAssetPut(ctx, l, id, start, end, amount) ==
    LET issued == SetIssued(AssetLiteral(id, start, end, amount))
        who == submittingClientIdentity(ctx, 1)
    IN  IF who.err # nil
        THEN Return(who.err, l)
        ELSE LET asset == [issued EXCEPT !.Lender = who.client]
                 put == PutState(ctx, l, <<>>, id, Marshal(asset))
             IN  [Return(put.err, put.ledger) EXCEPT
                     !.calls = put.calls, !.marshalled = <<asset>>]

CreateAsset(ctx, l, id, start, end, amount) ==
    LET ex == AssetExists(ctx, l, id)
    IN  IF ex.err # nil
        THEN Return(ex.err, l)
        ELSE IF ex.exists
        THEN Return(AlreadyExists, l)
        ELSE CreateAssetPut(ctx, l, id, start, end, amount)

\* a variant that infers existence from the delete call's own result
DeleteAssetUnchecked(ctx, l, id) ==
    LET del == DelState(ctx, l, <<>>, id)
    IN  [Return(del.err, del.ledger) EXCEPT !.calls = del.calls]

\* a variant that marks the entry deleted instead of removing it
DeleteAssetTombstone(ctx, l, id) ==
    LET ex == AssetExists(ctx, l, id)
    IN  IF ex.err # nil
        THEN Return(ex.err, l)
        ELSE IF ~ex.exists
        THEN Return(NotFound, l)
        ELSE LET put == PutState(ctx, l, <<>>, id, Marshal(ZeroAsset))
             IN  [Return(put.err, put.ledger) EXCEPT !.calls = put.calls]

DeleteAsset(ctx, l, id) ==
    LET ex == AssetExists(ctx, l, id)
    IN  IF ex.err # nil
        THEN Return(ex.err, l)
        ELSE IF ~ex.exists
        THEN Return(NotFound, l)
        ELSE LET del == DelState(ctx, l, <<>>, id)
             IN  [Return(del.err, del.ledger) EXCEPT !.calls = del.calls]

\* asset.Owner = newOwner does not compile: Asset declares no field Owner
\* (lines 37-51).  What the statement does is open among the repairs that
\* make it compile:
\*   "Owner"    Asset gains an exported field Owner, which Marshal writes
\*   "Borrower" the statement assigns the declared field Borrower
\*   "dropped"  the statement reaches nothing that Marshal writes (it is
\*              removed, or the field it assigns is not marshalled)
OwnerReadings == {"Owner", "Borrower", "dropped"}

\* asset.Owner = newOwner under one reading of the statement
AssignOwner(asset, newOwner, reading) ==
    IF reading = "Owner"
    THEN [f \in DOMAIN asset \cup {"Owner"} |-> IF f = "Owner" THEN newOwner ELSE asset[f]]
    ELSE IF reading = "Borrower"
    THEN [asset EXCEPT !.Borrower = newOwner]
    ELSE asset

\* a variant that writes a new record when the read finds nothing
TransferAssetUpsert(ctx, l, id, newOwner, reading) ==
    LET read == ReadAsset(ctx, l, id)
        found == IF read.err = nil THEN read.asset[1] ELSE [ZeroAsset EXCEPT !.ID = id]
        asset == AssignOwner(found, newOwner, reading)
        put == PutState(ctx, l, <<>>, id, Marshal(asset))
    IN  [Return(put.err, put.ledger) EXCEPT
            !.calls = put.calls, !.marshalled = <<asset>>]

TransferAsset(ctx, l, id, newOwner, reading) ==
    LET read == ReadAsset(ctx, l, id)
    IN  IF read.err # nil
        THEN Return(read.err, l)
        ELSE LET asset == AssignOwner(read.asset[1], newOwner, reading)
                 put == PutState(ctx, l, <<>>, id, Marshal(asset))
             IN  [Return(put.err, put.ledger) EXCEPT
                     !.calls = put.calls, !.marshalled = <<asset>>]

\* the composite literals of InitLedger, in slice order
SeedAssets ==
    <<AssetLiteral("asset1", 20210101, 20220101, 300),
      AssetLiteral("asset2", 20210101, 20220101, 400),
      AssetLiteral("asset3", 20210101, 20220101, 500),
      AssetLiteral("asset4", 20210101, 20220101, 600),
      AssetLiteral("asset5", 20210101, 20220101, 700),
      AssetLiteral("asset6", 20210101, 20220101, 800)>>

\* the body of `for _, asset := range assets` from element k on
RECURSIVE InitLoop(_, _, _, _, _, _)
InitLoop(ctx, assets, k, l, calls, marshalled) ==
    IF k > Len(assets)
    THEN [Return(nil, l) EXCEPT !.calls = calls, !.marshalled = marshalled]
    ELSE LET issued == SetIssued(assets[k])
             who == submittingClientIdentity(ctx, k)
         IN  IF who.err # nil
             THEN [Return(who.err, l) EXCEPT !.calls = calls, !.marshalled = marshalled]
             ELSE LET asset == [issued EXCEPT !.Lender = who.client]
                      put == PutState(ctx, l, calls, asset.ID, Marshal(asset))
                      done == Append(marshalled, asset)
                  IN  IF put.err # nil
                      THEN [Return(PutFault, put.ledger) EXCEPT
                               !.calls = put.calls, !.marshalled = done]
                      ELSE InitLoop(ctx, assets, k + 1, put.ledger, put.calls, done)

\* a variant that seeds only the keys that hold no value yet
InitLedgerKeepsExisting(ctx, l) ==
    InitLoop(ctx, SelectSeq(SeedAssets, LAMBDA a : l[a.ID] = <<>>), 1, l, <<>>, <<>>)

\* a variant that undoes the batch when one of its steps fails
InitLedgerRollsBack(ctx, l) ==
    LET run == InitLoop(ctx, SeedAssets, 1, l, <<>>, <<>>)
    IN  IF run.err # nil THEN [run EXCEPT !.ledger = l] ELSE run

InitLedger(ctx, l) == InitLoop(ctx, SeedAssets, 1, l, <<>>, <<>>)

\* bytes in the keyspace that are not the JSON of an Asset
Garbled == <<"not an asset record">>

\* queryResponse.Value of the i-th entry of the scan
EntryValue(ctx, l, entries, i) ==
    IF ctx.garbledAt = i THEN Garbled ELSE l[entries[i]]

\* the body of `for resultsIterator.HasNext()` from entry i on, run with the
\* iterator open
RECURSIVE ScanLoop(_, _, _, _, _)
ScanLoop(ctx, l, entries, i, assets) ==
    IF i > Len(entries)
    THEN [Return(nil, l) EXCEPT !.assets = assets, !.opened = 1]
    ELSE IF ctx.nextErrAt = i
    THEN [Return("Next failed", l) EXCEPT !.opened = 1]
    ELSE LET dec == Unmarshal(EntryValue(ctx, l, entries, i))
         IN  IF dec.err # nil
             THEN [Return(dec.err, l) EXCEPT !.opened = 1]
             ELSE ScanLoop(ctx, l, entries, i + 1, Append(assets, dec.asset))

\* defer resultsIterator.Close(): runs when the function returns, whichever
\* return statement is taken
Close(returned) == [returned EXCEPT !.closed = returned.closed + 1]

\* a variant whose loop consumes one entry before it starts collecting
GetAllAssetsSkipsFirst(ctx, l) ==
    LET it == GetStateByRange(ctx, l)
    IN  IF it.err # nil
        THEN Return(it.err, l)
        ELSE Close(ScanLoop(ctx, l, it.entries, 2, <<>>))

\* a variant that closes the iterator only before the final return
GetAllAssetsLeaksOnAbort(ctx, l) ==
    LET it == GetStateByRange(ctx, l)
    IN  IF it.err # nil
        THEN Return(it.err, l)
        ELSE LET run == ScanLoop(ctx, l, it.entries, 1, <<>>)
             IN  IF run.err = nil THEN Close(run) ELSE run

GetAllAssets(ctx, l) ==
    LET it == GetStateByRange(ctx, l)
    IN  IF it.err # nil
        THEN Return(it.err, l)
        ELSE Close(ScanLoop(ctx, l, it.entries, 1, <<>>))

----------------------------------------------------------------------------
(* State of the model *)

VARIABLES
    ledger,     \* the world state
    pre,        \* the world state when the last invocation started
    inv,        \* the last invocation: handler, context and arguments
    out,        \* what the last invocation returned and did
    asset,      \* an Asset value held in memory, as the handlers build them
    display,    \* what State.String last returned for asset's state ("" before)
    txs         \* CreateAsset invocations in flight, one per submitting caller

vars == <<ledger, pre, inv, out, asset, display, txs>>

Invocation(op, ctx, id, triple, newOwner) ==
    [op |-> op, ctx |-> ctx, id |-> id,
     start |-> triple[1], end |-> triple[2], amount |-> triple[3],
     newOwner |-> newOwner]

NoTriple == <<0, 0, 0>>

\* one invocation runs to completion as one step
Invoke(call, result) ==
    /\ pre' = ledger
    /\ inv' = call
    /\ out' = result
    /\ ledger' = result.ledger
    /\ UNCHANGED <<asset, display, txs>>

Init ==
    /\ ledger = EmptyLedger
    /\ pre = EmptyLedger
    /\ inv = Invocation("none", GoodCtx("lenderA"), "", NoTriple, "")
    /\ out = Return(nil, EmptyLedger)
    /\ asset = ZeroAsset
    /\ display = ""
    /\ txs = <<>>

\* contexts of the fault-free environment, one per caller
Ctxs == {GoodCtx(c) : c \in Callers}

\* ReadAsset, DeleteAsset, AssetExists, TransferAsset and GetAllAssets never
\* ask the context for the identity: one caller stands for all
AnyCtxs == {GoodCtx("lenderA")}

DoInitLedger(C) ==
    \E ctx \in C :
        Invoke(Invocation("InitLedger", ctx, "", NoTriple, ""), InitLedger(ctx, ledger))

DoCreateAsset(C, I) ==
    \E ctx \in C, id \in I, t \in ArgTriples :
        /\ <<ctx.b64ID.payload, t>> \in Submissions
        /\ Invoke(Invocation("CreateAsset", ctx, id, t, ""),
                  CreateAsset(ctx, ledger, id, t[1], t[2], t[3]))

DoReadAsset(C, I) ==
    \E ctx \in C, id \in I :
        Invoke(Invocation("ReadAsset", ctx, id, NoTriple, ""), ReadAsset(ctx, ledger, id))

DoDeleteAsset(C, I) ==
    \E ctx \in C, id \in I :
        Invoke(Invocation("DeleteAsset", ctx, id, NoTriple, ""), DeleteAsset(ctx, ledger, id))

DoAssetExists(C, I) ==
    \E ctx \in C, id \in I :
        Invoke(Invocation("AssetExists", ctx, id, NoTriple, ""), AssetExists(ctx, ledger, id))

\* the reading of the Owner assignment is drawn anew by every invocation
DoTransferAsset(C, I) ==
    \E ctx \in C, id \in I, newOwner \in NewOwners, reading \in OwnerReadings :
        Invoke(Invocation("TransferAsset", ctx, id, NoTriple, newOwner),
               TransferAsset(ctx, ledger, id, newOwner, reading))

DoGetAllAssets(C) ==
    \E ctx \in C :
        Invoke(Invocation("GetAllAssets", ctx, "", NoTriple, ""), GetAllAssets(ctx, ledger))

\* the contract on an environment that never fails
Next ==
    \/ DoInitLedger(Ctxs)
    \/ DoCreateAsset(Ctxs, Ids)
    \/ DoReadAsset(AnyCtxs, Ids)
    \/ DoDeleteAsset(AnyCtxs, Ids)
    \/ DoAssetExists(AnyCtxs, Ids)
    \/ DoTransferAsset(AnyCtxs, Ids)
    \/ DoGetAllAssets(AnyCtxs)

Spec == Init /\ [][Next]_vars

----------------------------------------------------------------------------
(* The contract on an environment that may fail: in each invocation at     *)
(* most one call of the identity service or of the stub returns an error   *)
(* (a handler returns at the first error it sees, so a second fault in the *)
(* same invocation is never observed).                                     *)

NumSeeds == 6

GetFault(c) == [GoodCtx(c) EXCEPT !.getErr = TRUE]

PutFault1(c) == [GoodCtx(c) EXCEPT !.putErrAt = 1]

DelFault(c) == [GoodCtx(c) EXCEPT !.delErr = TRUE]

IDFault1(c) == [GoodCtx(c) EXCEPT !.getIDErrAt = 1]

BadToken(c) == [GoodCtx(c) EXCEPT !.b64ID = Malformed(c)]

\* the identity behind the invocations whose faults are enumerated in full
FaultCallers == {"lenderA"}

CreateCtxs ==
    UNION {{GoodCtx(c), GetFault(c), PutFault1(c), IDFault1(c), BadToken(c)} : c \in Callers}

InitCtxs ==
    UNION {{GoodCtx(c), BadToken(c)}
             \cup {[GoodCtx(c) EXCEPT !.putErrAt = k] : k \in 1..NumSeeds}
             \cup {[GoodCtx(c) EXCEPT !.getIDErrAt = k] : k \in 1..NumSeeds} : c \in FaultCallers}

ReadCtxs == UNION {{GoodCtx(c), GetFault(c)} : c \in FaultCallers}

DeleteCtxs == UNION {{GoodCtx(c), GetFault(c), DelFault(c)} : c \in FaultCallers}

TransferCtxs == UNION {{GoodCtx(c), GetFault(c), PutFault1(c)} : c \in FaultCallers}

ScanCtxs ==
    UNION {{GoodCtx(c), [GoodCtx(c) EXCEPT !.rangeErr = TRUE]}
             \cup {[GoodCtx(c) EXCEPT !.nextErrAt = k] : k \in 1..2}
             \cup {[GoodCtx(c) EXCEPT !.garbledAt = k] : k \in 1..2} : c \in FaultCallers}

NextFault ==
    \/ DoInitLedger(InitCtxs)
    \/ DoCreateAsset(CreateCtxs, FaultIds)
    \/ DoReadAsset(ReadCtxs, FaultIds)
    \/ DoDeleteAsset(DeleteCtxs, FaultIds)
    \/ DoAssetExists(ReadCtxs, FaultIds)
    \/ DoTransferAsset(TransferCtxs, FaultIds)
    \/ DoGetAllAssets(ScanCtxs)

SpecFault == Init /\ [][NextFault]_vars

----------------------------------------------------------------------------
(* The Asset entity on its own: an Asset as the handlers construct it      *)
(* (a composite literal, Lender assigned or not yet) and the exported      *)
(* setters applied to it in any order.                                     *)

Literals ==
    {AssetLiteral(id, t[1], t[2], t[3]) : id \in Ids, t \in ArgTriples}
        \cup {SeedAssets[k] : k \in 1..NumSeeds}

InitAsset ==
    /\ ledger = EmptyLedger
    /\ pre = EmptyLedger
    /\ inv = Invocation("none", GoodCtx("lenderA"), "", NoTriple, "")
    /\ out = Return(nil, EmptyLedger)
    /\ asset \in {[a EXCEPT !.Lender = c] : a \in Literals, c \in Callers \cup {""}}
    /\ display = ""
    /\ txs = <<>>

\* a method call on the in-memory Asset: the ledger is not involved
Apply(method, result) ==
    /\ asset' = result
    /\ inv' = [inv EXCEPT !.op = method]
    /\ UNCHANGED <<ledger, pre, out, display, txs>>

DoSetIssued == Apply("SetIssued", SetIssued(asset))

DoSetPending == Apply("SetPending", SetPending(asset))

DoSetTrading == Apply("SetTrading", SetTrading(asset))

DoSetRedeemed == Apply("SetRedeemed", SetRedeemed(asset))

NextAsset ==
    \/ DoSetIssued
    \/ DoSetPending
    \/ DoSetTrading
    \/ DoSetRedeemed

SpecAsset == InitAsset /\ [][NextAsset]_vars

----------------------------------------------------------------------------
(* State.String on its own: a State of any value, and String applied to    *)
(* it.                                                                     *)

\* largest State value tried
MaxStateValue == 64

InitString ==
    /\ ledger = EmptyLedger
    /\ pre = EmptyLedger
    /\ inv = Invocation("none", GoodCtx("lenderA"), "", NoTriple, "")
    /\ out = Return(nil, EmptyLedger)
    /\ asset \in {[ZeroAsset EXCEPT !.state = st] : st \in 0..MaxStateValue}
    /\ display = ""
    /\ txs = <<>>

DoString ==
    /\ display' = String(GetState(asset))
    /\ inv' = [inv EXCEPT !.op = "String"]
    /\ UNCHANGED <<ledger, pre, out, asset, txs>>

NextString == DoString

SpecString == InitString /\ [][NextString]_vars

----------------------------------------------------------------------------
(* Concurrent CreateAsset invocations.  Each submitting caller has one     *)
(* CreateAsset in flight; an invocation is two steps, the existence check  *)
(* (lines 114-120) and the rest (lines 122-143).  The host serializes the  *)
(* invocations per key: it admits the check of an invocation only while no *)
(* other invocation on the same key is between its check and its put.      *)

\* number of concurrent invocations, each by a caller of its own
NumTxs == 3

TxCallerPool == <<"lenderA", "lenderB", "lenderC", "lenderD", "lenderE">>

TxCallers == {TxCallerPool[i] : i \in 1..NumTxs}

\* the keys the concurrent invocations contend for
ConcIds == {"loan-7", "asset1"}

NewTx(id, t) == [id |-> id, triple |-> t, pc |-> "ready", exists |-> FALSE, err |-> ""]

InitConc ==
    /\ ledger = EmptyLedger
    /\ pre = EmptyLedger
    /\ inv = Invocation("none", GoodCtx("lenderA"), "", NoTriple, "")
    /\ out = Return(nil, EmptyLedger)
    /\ asset = ZeroAsset
    /\ display = ""
    /\ txs \in [TxCallers -> {NewTx(id, t) : id \in ConcIds, t \in ArgTriples}]

\* per-key serializability of the host
HostAdmits(c) ==
    \A d \in TxCallers : d # c /\ txs[d].id = txs[c].id => txs[d].pc # "checked"

\* a host without any ordering between invocations
HostAdmitsAll(c) == TRUE

\* exists, err := s.AssetExists(ctx, id)
TxCheck(c, admitted) ==
    /\ txs[c].pc = "ready"
    /\ admitted
    /\ LET ex == AssetExists(GoodCtx(c), ledger, txs[c].id)
       IN  txs' = [txs EXCEPT ![c].pc = "checked", ![c].exists = ex.exists]
    /\ UNCHANGED <<ledger, pre, inv, out, asset, display>>

\* if exists { return ... }, and the rest of CreateAsset
TxPut(c) ==
    /\ txs[c].pc = "checked"
    /\ LET tx == txs[c]
           result == IF tx.exists
                     THEN Return(AlreadyExists, ledger)
                     ELSE CreateAssetPut(GoodCtx(c), ledger, tx.id,
                                         tx.triple[1], tx.triple[2], tx.triple[3])
       IN  /\ pre' = ledger
           /\ inv' = Invocation("CreateAsset", GoodCtx(c), tx.id, tx.triple, "")
           /\ out' = result
           /\ ledger' = result.ledger
           /\ txs' = [txs EXCEPT ![c].pc = "done", ![c].err = result.err]
    /\ UNCHANGED <<asset, display>>

NextConc ==
    \/ \E c \in TxCallers : TxCheck(c, HostAdmits(c))
    \/ \E c \in TxCallers : TxPut(c)

SpecConc == InitConc /\ [][NextConc]_vars

\* the same invocations on a host that interleaves them freely
NextRace ==
    \/ \E c \in TxCallers : TxCheck(c, HostAdmitsAll(c))
    \/ \E c \in TxCallers : TxPut(c)

SpecRace == InitConc /\ [][NextRace]_vars

----------------------------------------------------------------------------
(* Properties *)

\* the identity behind a context's token
CallerOf(ctx) == ctx.b64ID.payload

\* ReadAsset as a later invocation on ledger l would answer
ReadBack(l, id) == ReadAsset(GoodCtx("lenderA"), l, id)

\* the fields of an Asset other than Borrower and state
SameButBorrower(a, b) ==
    /\ a.ID = b.ID
    /\ a.Lender = b.Lender
    /\ a.StartDate = b.StartDate
    /\ a.EndDate = b.EndDate
    /\ a.Amount = b.Amount
    /\ a.BorrowerAddress = b.BorrowerAddress
    /\ a.InvestorAddress = b.InvestorAddress
    /\ a.PaymentHashes = b.PaymentHashes

\* C1 (part): after a successful CreateAsset(id, start, end, amount) by caller
\* c, ReadAsset(id) succeeds and returns the ID, Lender, StartDate, EndDate and
\* Amount that were passed in.
C1_FieldsReadBack ==
    (inv.op = "CreateAsset" /\ out.err = nil) =>
        LET r == ReadBack(ledger, inv.id)
        IN  /\ r.err = nil
            /\ r.asset[1].ID = inv.id
            /\ r.asset[1].Lender = CallerOf(inv.ctx)
            /\ r.asset[1].StartDate = inv.start
            /\ r.asset[1].EndDate = inv.end
            /\ r.asset[1].Amount = inv.amount

\* C1: for every id absent from the ledger and every caller c, a successful
\* CreateAsset(id, start, end, amount) by c followed immediately by
\* ReadAsset(id) returns an Asset whose state is ISSUED, whose Lender is c and
\* whose ID, StartDate, EndDate and Amount are the arguments.
C1_CreateThenReadIssued ==
    /\ C1_FieldsReadBack
    /\ (inv.op = "CreateAsset" /\ out.err = nil) =>
           GetState(ReadBack(ledger, inv.id).asset[1]) = ISSUED

\* C2: CreateAsset on an id already present fails with AlreadyExists for any
\* arguments and any caller, issues no write and leaves the ledger, and so the
\* value under id and its Lender, as they were.
C2_CreateExistingRejected ==
    (inv.op = "CreateAsset" /\ pre[inv.id] # <<>>) =>
        /\ out.err = AlreadyExists
        /\ out.calls = <<>>
        /\ ledger = pre

\* C2 witness: a second CreateAsset by another caller with other arguments was
\* rejected
C2_Witness ==
    /\ inv.op = "CreateAsset"
    /\ pre[inv.id] # <<>>
    /\ out.err = AlreadyExists
    /\ ReadBack(pre, inv.id).asset[1].Lender # CallerOf(inv.ctx)
    /\ ReadBack(pre, inv.id).asset[1].Amount # inv.amount

\* C3: DeleteAsset on an id that is not in the ledger fails with NotFound and
\* issues neither PutState nor DelState; the whole ledger is unchanged.
C3_DeleteAbsentNotFound ==
    (inv.op = "DeleteAsset" /\ pre[inv.id] = <<>>) =>
        /\ out.err = NotFound
        /\ out.calls = <<>>
        /\ ledger = pre

\* C3 witness: DeleteAsset of an absent id on a ledger that holds other assets
C3_Witness ==
    /\ inv.op = "DeleteAsset"
    /\ pre[inv.id] = <<>>
    /\ out.err = NotFound
    /\ \E k \in Keys : pre[k] # <<>>

\* C4: AssetExists(id) fails exactly when the GetState call fails; otherwise
\* it returns true exactly when a value is stored under id.  In particular it
\* answers false on the ledger before a successful CreateAsset(id) and true on
\* the ledger right after it.
C4_ExistsIffStored ==
    /\ inv.op = "AssetExists" =>
           /\ (out.err # nil) <=> inv.ctx.getErr
           /\ out.err = nil => (out.exists <=> pre[inv.id] # <<>>)
           /\ ledger = pre
    /\ (inv.op = "CreateAsset" /\ out.err = nil) =>
           /\ ~AssetExists(GoodCtx("lenderA"), pre, inv.id).exists
           /\ AssetExists(GoodCtx("lenderA"), ledger, inv.id).exists
    /\ \A id \in Keys :
           AssetExists(GoodCtx("lenderA"), ledger, id).exists <=> (ledger[id] # <<>>)

\* C4 witness: AssetExists answered true for an id that holds a value
C4_Witness ==
    /\ inv.op = "AssetExists"
    /\ out.err = nil
    /\ out.exists
    /\ pre[inv.id] # <<>>

\* C5: a successful TransferAsset(id, newBorrower) makes ReadAsset(id) return
\* Borrower = newBorrower, every other field and the state being what
\* ReadAsset(id) returned before the transfer.
C5_TransferSetsBorrower ==
    (inv.op = "TransferAsset" /\ out.err = nil) =>
        LET before == ReadBack(pre, inv.id).asset[1]
            after == ReadBack(ledger, inv.id).asset[1]
        IN  /\ after.Borrower = inv.newOwner
            /\ SameButBorrower(after, before)
            /\ GetState(after) = GetState(before)

\* C6: once an asset's state is REDEEMED no mutating operation succeeds on
\* it: whatever is called on a REDEEMED asset (TransferAsset, a setter) is
\* rejected and the asset stays as it was.
C6_RedeemedIsFinal ==
    [][GetState(asset) = REDEEMED => asset' = asset]_vars

\* the Asset a CreateAsset(id, start, end, amount) by caller c builds
Fresh(id, c, t) ==
    [ZeroAsset EXCEPT !.ID = id, !.Lender = c, !.StartDate = t[1],
                      !.EndDate = t[2], !.Amount = t[3], !.state = ISSUED]

\* C7: a successful DeleteAsset(id) removes the entry with no tombstone:
\* AssetExists(id) is false, ReadAsset(id) fails with NotFound, GetAllAssets
\* does not list id, and a later CreateAsset(id, ...) by any caller succeeds
\* and produces a fresh ISSUED asset: ReadAsset(id) then returns an Asset in
\* state ISSUED with the new caller and arguments and zero values elsewhere,
\* nothing of the deleted asset.
C7_DeleteThenCreateFreshIssued ==
    (inv.op = "DeleteAsset" /\ out.err = nil) =>
        /\ ledger[inv.id] = <<>>
        /\ LET ex == AssetExists(GoodCtx("lenderA"), ledger, inv.id)
           IN  ex.err = nil /\ ~ex.exists
        /\ ReadBack(ledger, inv.id).err = NotFound
        /\ LET all == GetAllAssets(GoodCtx("lenderA"), ledger)
           IN  all.err = nil /\ \A i \in 1..Len(all.assets) : all.assets[i].ID # inv.id
        /\ \A c \in Callers, t \in ArgTriples :
               LET again == CreateAsset(GoodCtx(c), ledger, inv.id, t[1], t[2], t[3])
                   read == ReadBack(again.ledger, inv.id)
               IN  /\ again.err = nil
                   /\ read.err = nil
                   /\ GetState(read.asset[1]) = ISSUED
                   /\ read.asset[1] = Fresh(inv.id, c, t)

\* C7 (what the code does): a successful DeleteAsset(id) issues one DelState
\* and leaves no entry behind: AssetExists(id) is false, ReadAsset(id) fails
\* with NotFound, GetAllAssets does not list id, and CreateAsset(id, ...) by
\* any caller succeeds again; the Asset it builds is ISSUED in memory, the
\* record it stores holds the new arguments and the zero values, nothing of
\* the deleted asset, and reads back with the zero state (C1).
C7_DeleteLeavesNoTombstone ==
    (inv.op = "DeleteAsset" /\ out.err = nil) =>
        /\ ledger[inv.id] = <<>>
        /\ out.calls = <<[call |-> "DelState", key |-> inv.id, value |-> <<>>]>>
        /\ LET ex == AssetExists(GoodCtx("lenderA"), ledger, inv.id)
           IN  ex.err = nil /\ ~ex.exists
        /\ ReadBack(ledger, inv.id).err = NotFound
        /\ LET all == GetAllAssets(GoodCtx("lenderA"), ledger)
           IN  all.err = nil /\ \A i \in 1..Len(all.assets) : all.assets[i].ID # inv.id
        /\ \A c \in Callers, t \in ArgTriples :
               LET again == CreateAsset(GoodCtx(c), ledger, inv.id, t[1], t[2], t[3])
               IN  /\ again.err = nil
                   /\ again.marshalled = <<Fresh(inv.id, c, t)>>
                   /\ again.ledger[inv.id] = Marshal(Fresh(inv.id, c, t))
                   /\ ReadBack(again.ledger, inv.id).asset[1] =
                          [Fresh(inv.id, c, t) EXCEPT !.state = ZeroState]

\* C7 witness: an asset of lenderB that a TransferAsset had given a Borrower
\* was deleted while other assets stay
C7_Witness ==
    /\ inv.op = "DeleteAsset"
    /\ out.err = nil
    /\ pre[inv.id] # <<>>
    /\ ReadBack(pre, inv.id).asset[1].Lender = "lenderB"
    /\ ReadBack(pre, inv.id).asset[1].Borrower = "borrowerB"
    /\ ledger[inv.id] = <<>>
    /\ \E k \in Keys : ledger[k] # <<>>

\* position of a key in lexical order
RECURSIVE IndexFrom(_, _, _)
IndexFrom(seq, x, i) ==
    IF i > Len(seq) THEN 0 ELSE IF seq[i] = x THEN i ELSE IndexFrom(seq, x, i + 1)

Rank(k) == IndexFrom(LexOrder, k, 1)

C9_TransferAbsentNotFound ==
    (inv.op = "TransferAsset" /\ pre[inv.id] = <<>>) =>
        /\ out.err = NotFound
        /\ out.calls = <<>>
        /\ ledger = pre
        /\ ledger[inv.id] = <<>>

\* C9 witness: TransferAsset of an absent id on a ledger that holds assets
C9_Witness ==
    /\ inv.op = "TransferAsset"
    /\ pre[inv.id] = <<>>
    /\ out.err = NotFound
    /\ \E k \in Keys : pre[k] # <<>>

\* the record the claim expects under the k-th seed key after InitLedger by c
ExpectedSeedIds == <<"asset1", "asset2", "asset3", "asset4", "asset5", "asset6">>

ExpectedSeed(k, c) ==
    <<ExpectedSeedIds[k], c, "", 20210101, 300 + 100 * (k - 1), 20220101, "", "", <<>>>>

\* C10: a successful InitLedger by caller c, from any ledger, leaves keys
\* asset1..asset6 each holding the seed record (StartDate 20210101, EndDate
\* 20220101, Amounts 300..800) in state ISSUED with Lender = c, whatever was
\* stored under those keys before, and leaves every other key unchanged.
C10_InitLedgerSeedsIssued ==
    (inv.op = "InitLedger" /\ out.err = nil) =>
        /\ \A k \in 1..6 :
               LET read == ReadBack(ledger, ExpectedSeedIds[k])
               IN  /\ ledger[ExpectedSeedIds[k]] = ExpectedSeed(k, CallerOf(inv.ctx))
                   /\ read.err = nil
                   /\ read.asset[1].Lender = CallerOf(inv.ctx)
                   /\ GetState(read.asset[1]) = ISSUED
        /\ \A id \in Keys : id \notin SeedIds => ledger[id] = pre[id]

\* C10 (what the code does): a successful InitLedger by caller c, from any
\* ledger, leaves under asset1..asset6 the seed records (StartDate 20210101,
\* EndDate 20220101, Amounts 300..800) with Lender = c and an empty Borrower,
\* each ISSUED in memory when it is marshalled and read back with the zero
\* state (C1), whatever those keys held before, and leaves every other key
\* unchanged.
C10_InitLedgerOverwritesSeeds ==
    (inv.op = "InitLedger" /\ out.err = nil) =>
        /\ \A k \in 1..6 :
               /\ ledger[ExpectedSeedIds[k]] = ExpectedSeed(k, CallerOf(inv.ctx))
               /\ Len(out.marshalled) = 6
               /\ GetState(out.marshalled[k]) = ISSUED
               /\ Marshal(out.marshalled[k]) = ExpectedSeed(k, CallerOf(inv.ctx))
               /\ GetState(ReadBack(ledger, ExpectedSeedIds[k]).asset[1]) = ZeroState
        /\ \A id \in Keys : id \notin SeedIds => ledger[id] = pre[id]

\* C10 witness: InitLedger ran over a ledger where asset1 had been created by
\* the other caller with another amount and given a Borrower by a
\* TransferAsset, asset2 held the seed record of the other caller, and a
\* non-seed key held a value; both seed keys were overwritten
C10_Witness ==
    /\ inv.op = "InitLedger"
    /\ out.err = nil
    /\ pre["asset1"] # <<>>
    /\ ReadBack(pre, "asset1").asset[1].Lender # CallerOf(inv.ctx)
    /\ ReadBack(pre, "asset1").asset[1].Amount = 1000
    /\ ReadBack(pre, "asset1").asset[1].Borrower = "borrowerB"
    /\ pre["asset2"] # <<>>
    /\ ReadBack(pre, "asset2").asset[1].Lender # CallerOf(inv.ctx)
    /\ ledger["asset1"] # pre["asset1"]
    /\ ledger["asset2"] # pre["asset2"]
    /\ ReadBack(ledger, "asset1").asset[1].Borrower = ""
    /\ \E id \in Keys : id \notin SeedIds /\ pre[id] # <<>>

\* C10, further case reached: the record InitLedger overwrote under asset1
\* carried an Owner written by an earlier TransferAsset
C10_OwnerOverwritten ==
    /\ inv.op = "InitLedger"
    /\ out.err = nil
    /\ Len(pre["asset1"]) = NumJSONFields + 1
    /\ Len(ledger["asset1"]) = NumJSONFields

\* where the fault of an InitLedger context strikes: the seed asset being
\* processed when the identity or the put fails (0: nowhere)
FailsAt(ctx) ==
    IF ~ctx.b64ID.wellFormed THEN 1
    ELSE IF ctx.getIDErrAt # 0 THEN ctx.getIDErrAt
    ELSE ctx.putErrAt

\* C11: InitLedger aborts at its first failure and does not roll back: when
\* identity resolution or the put fails at the k-th seed asset, the call
\* returns an error, the first k-1 seed keys hold their seed records and no
\* key from the k-th on (nor any other key) has been changed by the call.
C11_InitLedgerAbortsNoRollback ==
    (inv.op = "InitLedger" /\ FailsAt(inv.ctx) \in 1..6) =>
        LET k == FailsAt(inv.ctx)
        IN  /\ out.err # nil
            /\ \A j \in 1..(k - 1) :
                   ledger[ExpectedSeedIds[j]] = ExpectedSeed(j, CallerOf(inv.ctx))
            /\ \A j \in k..6 : ledger[ExpectedSeedIds[j]] = pre[ExpectedSeedIds[j]]
            /\ \A id \in Keys : id \notin SeedIds => ledger[id] = pre[id]
            /\ \A i \in 1..Len(out.calls) :
                   out.calls[i].call = "PutState" /\ out.calls[i].key = ExpectedSeedIds[i]
            /\ Len(out.calls) \in {k - 1, k}
            /\ Len(out.calls) = k <=> inv.ctx.putErrAt = k

\* C11 witness: the put of the 4th seed asset failed on a ledger without the
\* batch; asset1..asset3 are written, asset4..asset6 are not
C11_Witness ==
    /\ inv.op = "InitLedger"
    /\ inv.ctx.putErrAt = 4
    /\ out.err = PutFault
    /\ pre["asset3"] = <<>>
    /\ ledger["asset3"] # <<>>
    /\ ledger["asset4"] = <<>>
    /\ ledger["asset6"] = <<>>

\* the transition table of the hardened design
Allowed ==
    {<<ISSUED, PENDING>>, <<ISSUED, TRADING>>,
     <<PENDING, ISSUED>>, <<PENDING, TRADING>>,
     <<TRADING, REDEEMED>>}

\* C12: the state of an asset changes only along the table ISSUED ->
\* {PENDING, TRADING}, PENDING -> {ISSUED, TRADING}, TRADING -> {REDEEMED},
\* REDEEMED -> {}: a setter whose target is not allowed from the current state
\* leaves the state as it is.
C12_TransitionsFollowTable ==
    [][(GetState(asset) \in {ISSUED, PENDING, TRADING, REDEEMED}
          /\ GetState(asset') # GetState(asset))
         => <<GetState(asset), GetState(asset')>> \in Allowed]_vars

\* C13: every stored asset has a non-empty ID equal to the key it is stored
\* under, so GetAllAssets returns no asset with an empty ID and no two assets
\* with the same ID.
C13_StoredIdNonEmptyAndKey ==
    /\ \A k \in Keys :
           ledger[k] # <<>> =>
               /\ ReadBack(ledger, k).err = nil
               /\ ReadBack(ledger, k).asset[1].ID = k
               /\ ReadBack(ledger, k).asset[1].ID # ""
    /\ LET all == GetAllAssets(GoodCtx("lenderA"), ledger).assets
       IN  \A i, j \in 1..Len(all) :
               /\ all[i].ID # ""
               /\ i # j => all[i].ID # all[j].ID

\* C13 (part): every stored asset carries the key it is stored under as its
\* ID, so no two stored assets share an ID
C13_StoredIdIsKey ==
    \A k \in Keys : ledger[k] # <<>> => ReadBack(ledger, k).asset[1].ID = k

\* C14: an invocation issues at most one write per key and never repeats a
\* call that failed: CreateAsset and TransferAsset issue one PutState on id
\* when they get that far, DeleteAsset one DelState on id, InitLedger one
\* PutState per seed key in order, the reading handlers none; a successful
\* call has issued exactly those, a failed PutState or DelState is the last
\* call of its invocation.
C14_OneWritePerKey ==
    /\ \A i, j \in 1..Len(out.calls) : i # j => out.calls[i].key # out.calls[j].key
    /\ inv.op \in {"CreateAsset", "TransferAsset"} =>
           /\ Len(out.calls) <= 1
           /\ \A i \in 1..Len(out.calls) :
                  out.calls[i].call = "PutState" /\ out.calls[i].key = inv.id
           /\ out.err = nil => Len(out.calls) = 1
    /\ inv.op = "DeleteAsset" =>
           /\ Len(out.calls) <= 1
           /\ \A i \in 1..Len(out.calls) :
                  out.calls[i].call = "DelState" /\ out.calls[i].key = inv.id
           /\ out.err = nil => Len(out.calls) = 1
    /\ inv.op = "InitLedger" =>
           /\ \A i \in 1..Len(out.calls) :
                  out.calls[i].call = "PutState" /\ out.calls[i].key = ExpectedSeedIds[i]
           /\ out.err = nil => Len(out.calls) = 6
    /\ inv.op \in {"ReadAsset", "AssetExists", "GetAllAssets", "none"} => out.calls = <<>>
    /\ (inv.ctx.putErrAt # 0 /\ NumPuts(out.calls) >= inv.ctx.putErrAt) =>
           /\ out.err # nil
           /\ Len(out.calls) = inv.ctx.putErrAt
    /\ (inv.ctx.delErr /\ out.calls # <<>> /\ inv.op = "DeleteAsset") =>
           /\ out.err # nil
           /\ ledger = pre

\* C14 witness: the PutState of a CreateAsset on an absent id failed; it was
\* issued once and the error returned
C14_Witness ==
    /\ inv.op = "CreateAsset"
    /\ inv.ctx.putErrAt = 1
    /\ out.err = "PutState failed"
    /\ Len(out.calls) = 1
    /\ ledger = pre

\* C15: every iterator GetAllAssets opens is closed when it returns, after
\* exhaustion, after an error from Next and after an entry that does not
\* deserialize; on the abort paths no list is returned.  No other handler
\* opens an iterator.
C15_IteratorClosed ==
    /\ out.opened = out.closed
    /\ inv.op = "GetAllAssets" =>
           /\ out.opened = (IF inv.ctx.rangeErr THEN 0 ELSE 1)
           /\ out.err # nil => out.assets = <<>>
           /\ (inv.ctx.nextErrAt \in 1..Len(GetStateByRange(GoodCtx("lenderA"), pre).entries))
                  => out.err = "Next failed"
           /\ (inv.ctx.garbledAt \in 1..Len(GetStateByRange(GoodCtx("lenderA"), pre).entries))
                  => out.err = "unmarshal error"
    /\ inv.op # "GetAllAssets" => out.opened = 0

\* C15 witness: the second of at least two entries did not deserialize; the
\* iterator was opened and closed and nothing was returned
C15_Witness ==
    /\ inv.op = "GetAllAssets"
    /\ inv.ctx.garbledAt = 2
    /\ out.err = "unmarshal error"
    /\ out.opened = 1
    /\ out.closed = 1
    /\ out.assets = <<>>
    /\ Len(GetStateByRange(GoodCtx("lenderA"), pre).entries) >= 2

\* the ledger after the in-memory Asset a has been marshalled and put
Stored(a) == PutState(GoodCtx("lenderA"), EmptyLedger, <<>>, a.ID, Marshal(a)).ledger

\* C16: the state is not part of the persisted record: Assets that differ only
\* in state are written as the same bytes, and what ReadAsset or GetAllAssets
\* returns after the write has the zero state whatever state was written.
C16_StateNotPersisted ==
    /\ \A st \in {ZeroState, ISSUED, PENDING, TRADING, REDEEMED} :
           /\ Marshal([asset EXCEPT !.state = st]) = Marshal(asset)
           /\ Stored([asset EXCEPT !.state = st]) = Stored(asset)
    /\ Marshal(SetIssued(asset)) = Marshal(SetRedeemed(asset))
    /\ ReadBack(Stored(asset), asset.ID).err = nil
    /\ ReadBack(Stored(asset), asset.ID).asset[1] = [asset EXCEPT !.state = ZeroState]
    /\ GetAllAssets(GoodCtx("lenderA"), Stored(asset)).assets =
           <<[asset EXCEPT !.state = ZeroState]>>

\* C16 witness: an Asset in state REDEEMED whose reload is not REDEEMED
C16_Witness ==
    /\ inv.op = "SetRedeemed"
    /\ GetState(asset) = REDEEMED
    /\ GetState(ReadBack(Stored(asset), asset.ID).asset[1]) = ZeroState
    /\ Marshal(asset) = Marshal(SetIssued(asset))

\* C18: when identity resolution fails (GetID error or malformed token) in a
\* CreateAsset on an absent id, the error is returned, no PutState is issued
\* and id stays absent; whatever CreateAsset puts carries the caller's
\* identity as Lender, never an empty one.
C18_IdentityBeforeWrite ==
    inv.op = "CreateAsset" =>
        /\ (pre[inv.id] = <<>> /\ ~inv.ctx.getErr
              /\ (inv.ctx.getIDErrAt = 1 \/ ~inv.ctx.b64ID.wellFormed)) =>
               /\ out.err \in {"Failed to read clientID", "failed to base64 decode clientID"}
               /\ out.calls = <<>>
               /\ ledger = pre
               /\ ledger[inv.id] = <<>>
        /\ \A i \in 1..Len(out.calls) :
               /\ inv.ctx.b64ID.wellFormed
               /\ Unmarshal(out.calls[i].value).asset.Lender = CallerOf(inv.ctx)
               /\ Unmarshal(out.calls[i].value).asset.Lender # ""

\* C18 witness: CreateAsset with a malformed token on an absent id
C18_Witness ==
    /\ inv.op = "CreateAsset"
    /\ ~inv.ctx.b64ID.wellFormed
    /\ pre[inv.id] = <<>>
    /\ out.err = "failed to base64 decode clientID"
    /\ ledger[inv.id] = <<>>

\* C19: ReadAsset, AssetExists and GetAllAssets never change the ledger and
\* issue no write, whether they succeed or fail; CreateAsset, DeleteAsset and
\* TransferAsset on id leave the value of every other key unchanged.
C19_Frame ==
    /\ inv.op \in {"ReadAsset", "AssetExists", "GetAllAssets"} =>
           ledger = pre /\ out.calls = <<>>
    /\ inv.op \in {"CreateAsset", "DeleteAsset", "TransferAsset"} =>
           \A k \in Keys : k # inv.id => ledger[k] = pre[k]

\* C19 witness: a ReadAsset that succeeded on a ledger holding several assets
C19_Witness ==
    /\ inv.op = "ReadAsset"
    /\ out.err = nil
    /\ out.asset # <<>>
    /\ \E k \in Keys : k # inv.id /\ pre[k] # <<>>
    /\ ledger = pre

\* the invocations on id that have returned, and those that returned nil
Done(id) == {c \in TxCallers : txs[c].id = id /\ txs[c].pc = "done"}

Winners(id) == {c \in Done(id) : txs[c].err = nil}

\* C17: of the concurrent CreateAsset invocations on one absent id, by
\* different callers, exactly one succeeds and every other one fails with
\* AlreadyExists; the Lender (and the arguments) stored under id are those of
\* the one that succeeded.
C17_OneCreateWins ==
    \A id \in ConcIds :
        /\ Done(id) # {} => Cardinality(Winners(id)) = 1
        /\ \A c \in Done(id) : c \notin Winners(id) => txs[c].err = AlreadyExists
        /\ \A w \in Winners(id) :
               LET stored == ReadBack(ledger, id)
               IN  /\ stored.err = nil
                   /\ stored.asset[1].Lender = w
                   /\ stored.asset[1].StartDate = txs[w].triple[1]
                   /\ stored.asset[1].Amount = txs[w].triple[3]
        /\ Done(id) = {} => ledger[id] = <<>>

\* C17 witness: three invocations on loan-7 have returned, lenderB's
\* succeeded and the other two got AlreadyExists
C17_Witness ==
    /\ \A c \in {"lenderA", "lenderB", "lenderC"} :
           txs[c].id = "loan-7" /\ txs[c].pc = "done"
    /\ txs["lenderB"].err = nil
    /\ txs["lenderA"].err = AlreadyExists
    /\ txs["lenderC"].err = AlreadyExists
    /\ ReadBack(ledger, "loan-7").asset[1].Lender = "lenderB"

\* the display name the claim gives each State value
ExpectedName(st) ==
    CASE st = 1 -> "ISSUED"
      [] st = 2 -> "PENDING"
      [] st = 3 -> "TRADING"
      [] st = 4 -> "REDEEMED"
      [] OTHER -> "UNKNOWN"

\* C20: String maps 1..4 to "ISSUED", "PENDING", "TRADING", "REDEEMED" and
\* every other value, the zero value included, to "UNKNOWN".
C20_StringNames ==
    /\ inv.op = "String" => display = ExpectedName(GetState(asset))
    /\ String(GetState(asset)) \in {"ISSUED", "PENDING", "TRADING", "REDEEMED", "UNKNOWN"}

\* C20 witness: String was applied to the zero value and said UNKNOWN
C20_Witness ==
    /\ inv.op = "String"
    /\ GetState(asset) = ZeroState
    /\ display = "UNKNOWN"

====
